---- MODULE Spec2Model ----
(***************************************************************************)
(* Model of src/src/graphs_func.py: the IndexCounter class, the axis-limit *)
(* heuristic adjust_limits and the calendar routine                        *)
(* calculate_quarterly_dates.                                              *)
(*                                                                         *)
(* adjust_limits works on IEEE-754 binary64 values (Python float /         *)
(* numpy.float64).  Its arithmetic is modelled bit-exactly: a finite       *)
(* non-zero value is sign * m * 2^e with a 53-bit significand m, kept as a *)
(* little-endian sequence of 15-bit limbs, and every operation rounds to   *)
(* nearest, ties to even, as the hardware does.  Subnormals and overflow   *)
(* are outside the range of the inputs drawn here.  Signed zero is         *)
(* collapsed to one zero (the two compare equal in Python).                *)
(***************************************************************************)
EXTENDS Integers, Sequences, FiniteSets, TLC

\* ------------------------------------------------------------------------
\* Natural numbers of arbitrary size (significands and their products)
\* ------------------------------------------------------------------------
LimbBits == 15
Base == 2^LimbBits
MantBits == 53

Limb(a, i) == IF i <= Len(a) THEN a[i] ELSE 0

Zeros(n) == [j \in 1..n |-> 0]

RECURSIVE BNorm(_)
BNorm(a) ==
  IF a = <<>> THEN <<>>
  ELSE IF a[Len(a)] = 0 THEN BNorm(SubSeq(a, 1, Len(a) - 1)) ELSE a

RECURSIVE BFromInt(_)
BFromInt(n) == IF n = 0 THEN <<>> ELSE <<n % Base>> \o BFromInt(n \div Base)

RECURSIVE BCmpFrom(_, _, _)
BCmpFrom(a, b, i) ==
  IF i = 0 THEN 0
  ELSE IF a[i] > b[i] THEN 1
  ELSE IF a[i] < b[i] THEN -1
  ELSE BCmpFrom(a, b, i - 1)

BCmp(a, b) ==
  IF Len(a) > Len(b) THEN 1
  ELSE IF Len(a) < Len(b) THEN -1
  ELSE BCmpFrom(a, b, Len(a))

RECURSIVE BAddFrom(_, _, _, _)
BAddFrom(a, b, i, c) ==
  IF i > Len(a) /\ i > Len(b) THEN (IF c = 0 THEN <<>> ELSE <<c>>)
  ELSE LET t == Limb(a, i) + Limb(b, i) + c
       IN  <<t % Base>> \o BAddFrom(a, b, i + 1, t \div Base)

BAdd(a, b) == BAddFrom(a, b, 1, 0)

RECURSIVE BSubFrom(_, _, _, _)
BSubFrom(a, b, i, c) ==
  IF i > Len(a) THEN <<>>
  ELSE LET t == a[i] - Limb(b, i) - c
       IN  IF t < 0 THEN <<t + Base>> \o BSubFrom(a, b, i + 1, 1)
           ELSE <<t>> \o BSubFrom(a, b, i + 1, 0)

\* a - b for a >= b
BSub(a, b) == BNorm(BSubFrom(a, b, 1, 0))

RECURSIVE BMulSmallFrom(_, _, _, _)
BMulSmallFrom(a, k, i, c) ==
  IF i > Len(a) THEN (IF c = 0 THEN <<>> ELSE <<c>>)
  ELSE LET t == a[i] * k + c
       IN  <<t % Base>> \o BMulSmallFrom(a, k, i + 1, t \div Base)

\* a * k for 0 <= k < Base
BMulSmall(a, k) == IF k = 0 \/ a = <<>> THEN <<>> ELSE BMulSmallFrom(a, k, 1, 0)

RECURSIVE BMulFrom(_, _, _)
BMulFrom(a, b, i) ==
  IF i > Len(b) THEN <<>>
  ELSE LET p == BMulSmall(a, b[i])
       IN  BAdd(IF p = <<>> THEN <<>> ELSE Zeros(i - 1) \o p, BMulFrom(a, b, i + 1))

BMul(a, b) == BMulFrom(a, b, 1)

\* a * 2^n
BShl(a, n) ==
  IF a = <<>> THEN <<>>
  ELSE Zeros(n \div LimbBits) \o BMulSmall(a, 2^(n % LimbBits))

\* floor(a / 2^n)
BShr(a, n) ==
  LET w == n \div LimbBits
      r == n % LimbBits
      d == IF w >= Len(a) THEN <<>> ELSE SubSeq(a, w + 1, Len(a))
  IN  BNorm([j \in 1..Len(d) |->
               (d[j] \div 2^r) + (Limb(d, j + 1) % 2^r) * 2^(LimbBits - r)])

RECURSIVE BitLenSmall(_)
BitLenSmall(x) == IF x = 0 THEN 0 ELSE 1 + BitLenSmall(x \div 2)

BBitLen(a) ==
  IF a = <<>> THEN 0 ELSE LimbBits * (Len(a) - 1) + BitLenSmall(a[Len(a)])

BIsOdd(a) == a # <<>> /\ a[1] % 2 = 1

\* lowers the estimate q (with p = q * b) until q * b <= R
RECURSIVE DivFix(_, _, _, _)
DivFix(R, b, q, p) ==
  IF BCmp(p, R) > 0 THEN DivFix(R, b, q - 1, BSub(p, b))
  ELSE [q |-> q, r |-> BSub(R, p)]

\* one limb of the quotient: floor(r * Base / b) and the remainder, for
\* r < b and the top limb of b at least Base / 2 (long division, with the
\* quotient digit estimated from the two leading limbs)
DivLimb(r, b) ==
  LET R   == IF r = <<>> THEN <<>> ELSE <<0>> \o r
      n   == Len(b)
      est == (Limb(R, n + 1) * Base + Limb(R, n)) \div b[n]
      q0  == IF est >= Base THEN Base - 1 ELSE est
  IN  DivFix(R, b, q0, BMulSmall(b, q0))

\* k limbs of the expansion of r / b in base Base, for r < b
RECURSIVE DivFrac(_, _, _)
DivFrac(r, b, k) ==
  IF k = 0 THEN [q |-> <<>>, r |-> r]
  ELSE LET top  == DivLimb(r, b)
           rest == DivFrac(top.r, b, k - 1)
       IN  [q |-> rest.q \o <<top.q>>, r |-> rest.r]

\* ------------------------------------------------------------------------
\* binary64 values and the operations adjust_limits applies to them
\* ------------------------------------------------------------------------
FZero == [k |-> "zero", s |-> 0, m |-> <<>>, e |-> 0]
FNaN  == [k |-> "nan",  s |-> 0, m |-> <<>>, e |-> 0]
FInf(s) == [k |-> "inf", s |-> s, m |-> <<>>, e |-> 0]

Num(s, m, e) == [k |-> "num", s |-> s, m |-> m, e |-> e]

\* q * 2^e with q of 53 or, after a carry, 54 bits (then q = 2^53)
RoundNorm(s, q, e) ==
  IF BBitLen(q) > MantBits THEN Num(s, BShr(q, 1), e + 1) ELSE Num(s, q, e)

\* q or q + 1: c compares the discarded part with one half of the last kept
\* bit; a tie goes to the even significand
RoundUpIf(q, c, sticky) ==
  IF c > 0 \/ (c = 0 /\ (sticky \/ BIsOdd(q))) THEN BAdd(q, <<1>>) ELSE q

\* M cut by sh bits, q = floor(M / 2^sh)
RoundCut(s, M, e, sticky, sh, q) ==
  RoundNorm(s, RoundUpIf(q, BCmp(BSub(M, BShl(q, sh)), BShl(<<1>>, sh - 1)), sticky), e + sh)

\* sign * M * 2^e (plus a sticky remainder below M's last bit), rounded to
\* 53 bits, nearest, ties to even
FRound(s, M, e, sticky) ==
  IF M = <<>> THEN FZero
  ELSE IF BBitLen(M) <= MantBits
  THEN Num(s, BShl(M, MantBits - BBitLen(M)), e - (MantBits - BBitLen(M)))
  ELSE RoundCut(s, M, e, sticky, BBitLen(M) - MantBits, BShr(M, BBitLen(M) - MantBits))

\* an int converted to float
FromInt(n) == FRound(IF n < 0 THEN 1 ELSE 0, BFromInt(IF n < 0 THEN -n ELSE n), 0, FALSE)

FNeg(x) == IF x.k \in {"num", "inf"} THEN [x EXCEPT !.s = 1 - x.s] ELSE x

FAbs(x) == IF x.k \in {"num", "inf"} THEN [x EXCEPT !.s = 0] ELSE x

\* comparison of magnitudes of two "num" values: -1, 0, 1
MagCmp(x, y) ==
  IF x.e > y.e THEN 1 ELSE IF x.e < y.e THEN -1 ELSE BCmp(x.m, y.m)

\* comparison of two finite values: -1, 0, 1
FCmp(x, y) ==
  IF x.k = "zero" THEN (IF y.k = "zero" THEN 0 ELSE IF y.s = 1 THEN 1 ELSE -1)
  ELSE IF y.k = "zero" THEN (IF x.s = 1 THEN -1 ELSE 1)
  ELSE IF x.s # y.s THEN (IF x.s = 1 THEN -1 ELSE 1)
  ELSE IF x.s = 0 THEN MagCmp(x, y) ELSE MagCmp(y, x)

Finite(x) == x.k \in {"num", "zero"}

\* x <= y; any comparison with NaN is false
FLe(x, y) == Finite(x) /\ Finite(y) /\ FCmp(x, y) <= 0

FEq(x, y) == Finite(x) /\ Finite(y) /\ FCmp(x, y) = 0

\* x * y
FMul(x, y) ==
  IF x.k = "nan" \/ y.k = "nan" THEN FNaN
  ELSE IF x.k = "inf" \/ y.k = "inf"
  THEN (IF x.k = "zero" \/ y.k = "zero" THEN FNaN ELSE FInf((x.s + y.s) % 2))
  ELSE IF x.k = "zero" \/ y.k = "zero" THEN FZero
  ELSE FRound((x.s + y.s) % 2, BMul(x.m, y.m), x.e + y.e, FALSE)

\* the quotient X / Y of two 60-bit naturals, to 60 fraction bits
DivMant(s, X, Y, e, q0) ==
  LET frac == DivFrac(IF q0 = 1 THEN BSub(X, Y) ELSE X, Y, 4)
  IN  FRound(s, BNorm(frac.q \o <<q0>>), e - 4 * LimbBits, frac.r # <<>>)

\* x / y; numpy yields nan for 0/0 and inf for x/0, with a warning only
FDiv(x, y) ==
  IF x.k = "nan" \/ y.k = "nan" THEN FNaN
  ELSE IF x.k = "inf" THEN (IF y.k = "inf" THEN FNaN ELSE FInf((x.s + y.s) % 2))
  ELSE IF y.k = "inf" THEN FZero
  ELSE IF y.k = "zero" THEN (IF x.k = "zero" THEN FNaN ELSE FInf(x.s))
  ELSE IF x.k = "zero" THEN FZero
  ELSE DivMant((x.s + y.s) % 2, BShl(x.m, 4 * LimbBits - MantBits),
               BShl(y.m, 4 * LimbBits - MantBits), x.e - y.e,
               IF BCmp(x.m, y.m) >= 0 THEN 1 ELSE 0)

\* sx * X * 2^e + sy * Y * 2^e
AlignedSum(sx, X, sy, Y, e) ==
  FRound(IF sx = sy \/ BCmp(X, Y) >= 0 THEN sx ELSE sy,
         IF sx = sy THEN BAdd(X, Y)
         ELSE IF BCmp(X, Y) >= 0 THEN BSub(X, Y) ELSE BSub(Y, X),
         e, FALSE)

\* x - y
FSub(x, y) ==
  IF x.k = "nan" \/ y.k = "nan" THEN FNaN
  ELSE IF x.k = "inf" THEN (IF y.k = "inf" /\ y.s = x.s THEN FNaN ELSE x)
  ELSE IF y.k = "inf" THEN FNeg(y)
  ELSE IF y.k = "zero" THEN x
  ELSE IF x.k = "zero" THEN FNeg(y)
  ELSE IF x.e < y.e THEN AlignedSum(x.s, x.m, 1 - y.s, BShl(y.m, y.e - x.e), x.e)
  ELSE AlignedSum(x.s, BShl(x.m, x.e - y.e), 1 - y.s, y.m, y.e)

\* floor of x = sign * m * 2^e with e < 0, ip = floor(m * 2^e)
FloorOf(x, ip) ==
  FRound(x.s, IF x.s = 1 /\ BCmp(BShl(ip, -x.e), x.m) # 0 THEN BAdd(ip, <<1>>) ELSE ip,
         0, FALSE)

\* np.floor
FFloor(x) == IF x.k # "num" \/ x.e >= 0 THEN x ELSE FloorOf(x, BShr(x.m, -x.e))

\* np.ceil
FCeil(x) == FNeg(FFloor(FNeg(x)))

\* the float a decimal literal n/d denotes (correctly rounded)
Lit(n, d) == FDiv(FromInt(n), FromInt(d))

\* ------------------------------------------------------------------------
\* State
\* ------------------------------------------------------------------------
VARIABLES
  y_min, y_max, max_ticks,  \* arguments of a call of adjust_limits
  l_pc,                     \* "ready" before the call, "done" after it
  l_outcome,                \* "none", "returned" or "raised"
  ret,                      \* the returned triple [min, max, step]
  magnitude, found          \* locals of the call: magnitude, and whether the
                            \* candidate loop left through its break

lvars == <<y_min, y_max, max_ticks, l_pc, l_outcome, ret, magnitude, found>>

VARIABLES
  index,                    \* df.index: the set of dates (day ordinals) of the data
  shift_back_days,          \* argument of calculate_quarterly_dates
  d_pc,                     \* "ready" before the call, "done" after it
  d_outcome,                \* "none", "returned" or "raised"
  dates                     \* the returned sequence

dvars == <<index, shift_back_days, d_pc, d_outcome, dates>>

VARIABLES
  start,                    \* argument of IndexCounter.__init__
  i,                        \* IndexCounter.i
  c_op,                     \* the last call: "init", "i_next", "i_curr", "reset"
  c_ret,                    \* its return value: <<v>>, or <<>> for None
  n_next,                   \* history: i_next calls since creation or the last reset
  was_reset,                \* history: reset has been called
  n_calls                   \* history: calls made so far

cvars == <<start, i, c_op, c_ret, n_next, was_reset, n_calls>>

vars == <<lvars, dvars, cvars>>

\* ------------------------------------------------------------------------
\* adjust_limits
\* ------------------------------------------------------------------------
MaxTenths == 20
SmallTicks == 3
DefaultMaxTicks == 10

\* Python's max(a, b) on two floats
FMax(a, b) == IF FCmp(b, a) > 0 THEN b ELSE a

\* 10 ** p for an integral float exponent p
Pow10(p) == Lit(IF p >= 0 THEN 10^p ELSE 1, IF p >= 0 THEN 1 ELSE 10^(-p))

RECURSIVE Log10Up(_, _)
Log10Up(a, p) == IF FLe(Pow10(p + 1), a) THEN Log10Up(a, p + 1) ELSE p

RECURSIVE Log10Down(_, _)
Log10Down(a, p) == IF FLe(Pow10(p), a) THEN p ELSE Log10Down(a, p - 1)

\* np.floor(np.log10(a)) for a finite a > 0: the p with 10^p <= a < 10^(p+1)
FloorLog10(a) == IF FLe(FromInt(1), a) THEN Log10Up(a, 0) ELSE Log10Down(a, -1)

Log10RaisesLikeMath(a) == a.k = "zero"

\* np.log10 does not raise: log10(0) is -inf with a RuntimeWarning
Log10Raises(a) == FALSE

\* 10 ** np.floor(np.log10(a)); for a = 0 this is 10 ** -inf = 0.0
Magnitude(a) == IF a.k = "zero" THEN FZero ELSE Pow10(FloorLog10(a))

DefaultStepLargestCandidate(mag) == FMul(Lit(25, 10), mag)

\* step = 5 * magnitude
DefaultStep(mag) == FMul(FromInt(5), mag)

\* the literals 0.005, 0.01, 0.025, 0.05, 0.1, 0.25, 0.5, 1, 2, 2.5
StepFactors ==
  << <<5, 1000>>, <<1, 100>>, <<25, 1000>>, <<5, 100>>, <<1, 10>>,
     <<25, 100>>, <<5, 10>>, <<1, 1>>, <<2, 1>>, <<25, 10>> >>

step_candidates(mag) ==
  [j \in 1..Len(StepFactors) |-> FMul(mag, Lit(StepFactors[j][1], StepFactors[j][2]))]

\* np.floor(y / unit) * unit
RoundDown(y, unit) == FMul(FFloor(FDiv(y, unit)), unit)

RoundUpFloors(y, unit) == FMul(FFloor(FDiv(y, unit)), unit)

\* np.ceil(y / unit) * unit
RoundUp(y, unit) == FMul(FCeil(FDiv(y, unit)), unit)

\* the loop over step_candidates: index of the first candidate that passes
\* the test, 0 when the loop ends without a break
RECURSIVE FirstFit(_, _, _, _)
FirstFit(cands, span, ticks, j) ==
  IF j > Len(cands) THEN 0
  ELSE IF FLe(FDiv(span, cands[j]), FromInt(ticks)) THEN j
  ELSE FirstFit(cands, span, ticks, j + 1)

adjust_limits(lo, hi, ticks) ==
  LET mag        == Magnitude(FMax(FAbs(lo), FAbs(hi)))
      round_base == FDiv(mag, FromInt(10))
      lo0        == RoundDown(lo, round_base)
      hi0        == RoundUp(hi, round_base)
      cands      == step_candidates(mag)
      j          == FirstFit(cands, FSub(hi0, lo0), ticks, 1)
      step       == IF j = 0 THEN DefaultStep(mag) ELSE cands[j]
  IN  [min |-> RoundDown(lo, step), max |-> RoundUp(hi, step), step |-> step,
       magnitude |-> mag, found |-> j # 0]

\* the floats denoted by the literals k/10, |k| <= MaxTenths, and by the
\* literals 0.03 and 0.97
Inputs == {Lit(k, 10) : k \in -MaxTenths..MaxTenths} \cup {Lit(3, 100), Lit(97, 100)}

NoRet == [min |-> FZero, max |-> FZero, step |-> FZero]

LInit ==
  /\ y_min \in Inputs
  /\ y_max \in Inputs
  /\ FLe(y_min, y_max)
  /\ max_ticks \in {SmallTicks, DefaultMaxTicks}
  /\ l_pc = "ready"
  /\ l_outcome = "none"
  /\ ret = NoRet
  /\ magnitude = FZero
  /\ found = FALSE

AdjustLimits ==
  /\ l_pc = "ready"
  /\ l_pc' = "done"
  /\ IF Log10Raises(FMax(FAbs(y_min), FAbs(y_max)))
     THEN /\ l_outcome' = "raised"
          /\ UNCHANGED <<ret, magnitude, found>>
     ELSE \E r \in {adjust_limits(y_min, y_max, max_ticks)} :
              /\ l_outcome' = "returned"
              /\ ret' = [min |-> r.min, max |-> r.max, step |-> r.step]
              /\ magnitude' = r.magnitude
              /\ found' = r.found
  /\ UNCHANGED <<y_min, y_max, max_ticks>>

\* ------------------------------------------------------------------------
\* IndexCounter
\* ------------------------------------------------------------------------
MaxStart == 2
MaxCalls == 6

ResetValueStart(s) == s

\* reset: self.i = 0
ResetValue(s) == 0

CInit ==
  /\ start \in -MaxStart..MaxStart
  /\ i = start
  /\ c_op = "init"
  /\ c_ret = <<>>
  /\ n_next = 0
  /\ was_reset = FALSE
  /\ n_calls = 0

i_next ==
  /\ n_calls < MaxCalls
  /\ i' = i + 1
  /\ c_ret' = <<i'>>
  /\ c_op' = "i_next"
  /\ n_next' = n_next + 1
  /\ n_calls' = n_calls + 1
  /\ UNCHANGED <<start, was_reset>>

i_curr ==
  /\ n_calls < MaxCalls
  /\ c_ret' = <<i>>
  /\ c_op' = "i_curr"
  /\ n_calls' = n_calls + 1
  /\ UNCHANGED <<start, i, n_next, was_reset>>

reset ==
  /\ n_calls < MaxCalls
  /\ i' = ResetValue(start)
  /\ c_ret' = <<>>
  /\ c_op' = "reset"
  /\ n_next' = 0
  /\ was_reset' = TRUE
  /\ n_calls' = n_calls + 1
  /\ UNCHANGED start

\* ------------------------------------------------------------------------
\* calculate_quarterly_dates
\* ------------------------------------------------------------------------
MaxYears == 2
MaxIndex == 2
DefaultShiftBackDays == 18

IsLeap(y) == (y % 4 = 0 /\ y % 100 # 0) \/ y % 400 = 0

DaysInMonth(y, m) ==
  IF m = 2 THEN (IF IsLeap(y) THEN 29 ELSE 28)
  ELSE IF m \in {4, 6, 9, 11} THEN 30 ELSE 31

RECURSIVE DaysBeforeMonth(_, _)
DaysBeforeMonth(y, m) ==
  IF m = 1 THEN 0 ELSE DaysBeforeMonth(y, m - 1) + DaysInMonth(y, m - 1)

\* pd.Timestamp(y, m, d) as a day ordinal (0001-01-01 is day 1)
Timestamp(y, m, d) ==
  365 * (y - 1) + (y - 1) \div 4 - (y - 1) \div 100 + (y - 1) \div 400
    + DaysBeforeMonth(y, m) + d

\* Timestamp.weekday(): Monday is 0, Friday is 4
weekday(t) == (t + 6) % 7

RECURSIVE YearFrom(_, _)
YearFrom(t, y) == IF Timestamp(y + 1, 1, 1) <= t THEN YearFrom(t, y + 1) ELSE y

\* Timestamp.year
YearOf(t) == YearFrom(t, (t - 1) \div 366 + 1)

\* Timestamp.month
MonthOf(t) ==
  LET y == YearOf(t)
  IN  CHOOSE m \in 1..12 : Timestamp(y, m, 1) <= t /\ t <= Timestamp(y, m, DaysInMonth(y, m))

\* t + pd.offsets.MonthEnd(0): rolls forward to the last day of t's month
MonthEnd(t) == Timestamp(YearOf(t), MonthOf(t), DaysInMonth(YearOf(t), MonthOf(t)))

\* t - pd.offsets.Week(weekday=4): the Friday strictly before t
WeekBack(t) == IF weekday(t) = 4 THEN t - 7 ELSE t - ((weekday(t) - 4) % 7)

LastFridayNoTest(last_day) == WeekBack(last_day)

\* the if/else that finds the last Friday of the month
LastFriday(last_day) == IF weekday(last_day) = 4 THEN last_day ELSE WeekBack(last_day)

\* target_day of one iteration
TargetDay(year, quarter_month, shift) ==
  LastFriday(MonthEnd(Timestamp(year, quarter_month, 1))) - shift

ContainsAlways(idx, t) == TRUE

\* target_day in df.index
Contains(idx, t) == t \in idx

quarter_months == <<3, 6, 9, 12>>

SetMin(S) == CHOOSE x \in S : \A z \in S : x <= z

SetMax(S) == CHOOSE x \in S : \A z \in S : x >= z

\* the inner loop, over range(year, ymax + 1)
RECURSIVE YearLoop(_, _, _, _, _)
YearLoop(idx, shift, quarter_month, year, ymax) ==
  IF year > ymax THEN <<>>
  ELSE LET target_day == TargetDay(year, quarter_month, shift)
       IN  (IF Contains(idx, target_day) THEN <<target_day>> ELSE <<>>)
             \o YearLoop(idx, shift, quarter_month, year + 1, ymax)

\* the outer loop, over quarter_months from position j
RECURSIVE QuarterLoop(_, _, _, _, _)
QuarterLoop(idx, shift, j, ymin, ymax) ==
  IF j > Len(quarter_months) THEN <<>>
  ELSE YearLoop(idx, shift, quarter_months[j], ymin, ymax)
         \o QuarterLoop(idx, shift, j + 1, ymin, ymax)

RECURSIVE YearMajorLoop(_, _, _, _)
YearMajorLoop(idx, shift, year, ymax) ==
  IF year > ymax THEN <<>>
  ELSE SelectSeq([j \in 1..Len(quarter_months) |-> TargetDay(year, quarter_months[j], shift)],
                 LAMBDA t : Contains(idx, t))
         \o YearMajorLoop(idx, shift, year + 1, ymax)

QuarterlyDatesYearMajor(idx, shift) ==
  YearMajorLoop(idx, shift, SetMin({YearOf(t) : t \in idx}), SetMax({YearOf(t) : t \in idx}))

\* the two nested loops, for a non-empty index
QuarterlyDates(idx, shift) ==
  QuarterLoop(idx, shift, 1, SetMin({YearOf(t) : t \in idx}), SetMax({YearOf(t) : t \in idx}))

\* df.index.year.min() of an empty index is NaN, and range(NaN, ...) raises
\* TypeError
YearRangeRaises(idx) == idx = {}

Years == 2022..(2021 + MaxYears)

Shifts == {0, DefaultShiftBackDays}

\* the dates a data index is drawn from: the first day of every year and,
\* for every quarter end, the last day of the month, its last Friday and
\* the day 18 days before that
Pool ==
  {Timestamp(y, 1, 1) : y \in Years}
    \cup UNION {{MonthEnd(Timestamp(y, quarter_months[j], 1)),
                 TargetDay(y, quarter_months[j], 0),
                 TargetDay(y, quarter_months[j], DefaultShiftBackDays)}
                : y \in Years, j \in 1..Len(quarter_months)}

DInit ==
  /\ index = {}
  /\ shift_back_days \in Shifts
  /\ d_pc = "ready"
  /\ d_outcome = "none"
  /\ dates = <<>>

\* the caller's data gains a row
AddDate ==
  /\ d_pc = "ready"
  /\ Cardinality(index) < MaxIndex
  /\ \E t \in Pool \ index : index' = index \cup {t}
  /\ UNCHANGED <<shift_back_days, d_pc, d_outcome, dates>>

calculate_quarterly_dates ==
  /\ d_pc = "ready"
  /\ d_pc' = "done"
  /\ IF YearRangeRaises(index)
     THEN /\ d_outcome' = "raised"
          /\ UNCHANGED dates
     ELSE /\ d_outcome' = "returned"
          /\ dates' = QuarterlyDates(index, shift_back_days)
  /\ UNCHANGED <<index, shift_back_days>>

\* ------------------------------------------------------------------------
\* Specifications: one per component; the other components stay idle
\* ------------------------------------------------------------------------
LIdle ==
  /\ y_min = FZero /\ y_max = FZero /\ max_ticks = DefaultMaxTicks
  /\ l_pc = "idle" /\ l_outcome = "none" /\ ret = NoRet
  /\ magnitude = FZero /\ found = FALSE

DIdle ==
  /\ index = {} /\ shift_back_days = DefaultShiftBackDays
  /\ d_pc = "idle" /\ d_outcome = "none" /\ dates = <<>>

CIdle ==
  /\ start = 0 /\ i = 0 /\ c_op = "idle" /\ c_ret = <<>>
  /\ n_next = 0 /\ was_reset = FALSE /\ n_calls = 0

InitLimits == LInit /\ DIdle /\ CIdle
NextLimits == AdjustLimits /\ UNCHANGED <<dvars, cvars>>
SpecLimits == InitLimits /\ [][NextLimits]_vars

InitDates == DInit /\ LIdle /\ CIdle
NextDates ==
  \/ AddDate /\ UNCHANGED <<lvars, cvars>>
  \/ calculate_quarterly_dates /\ UNCHANGED <<lvars, cvars>>
SpecDates == InitDates /\ [][NextDates]_vars

InitCounter == CInit /\ LIdle /\ DIdle
NextCounter ==
  \/ i_next /\ UNCHANGED <<lvars, dvars>>
  \/ i_curr /\ UNCHANGED <<lvars, dvars>>
  \/ reset /\ UNCHANGED <<lvars, dvars>>
SpecCounter == InitCounter /\ [][NextCounter]_vars

\* ------------------------------------------------------------------------
\* Properties of adjust_limits (checked under SpecLimits)
\* ------------------------------------------------------------------------
Returned == l_pc = "done" /\ l_outcome = "returned"

NonZeroRange == FMax(FAbs(y_min), FAbs(y_max)).k # "zero"

Y003 == Lit(3, 100)
Y097 == Lit(97, 100)
F01  == Lit(1, 10)
F0025 == Lit(25, 1000)
F25  == Lit(25, 10)
F1   == FromInt(1)
F5   == FromInt(5)

\* C1: for y_min <= y_max, not both zero, the returned bounds enclose the
\* input range: returned minimum <= y_min and returned maximum >= y_max.
C1_BoundsEnclose ==
  (Returned /\ FLe(y_min, y_max) /\ NonZeroRange)
    => FLe(ret.min, y_min) /\ FLe(y_max, ret.max)

\* C2: whenever some candidate step passed the tick-count test, the
\* returned triple satisfies (max - min) / step <= max_ticks.
C2_TickCeiling ==
  (Returned /\ FLe(y_min, y_max) /\ NonZeroRange /\ max_ticks >= 1 /\ found)
    => FLe(FDiv(FSub(ret.max, ret.min), ret.step), FromInt(max_ticks))

\* C3 as stated: when no candidate passes the test, the step returned and
\* used for the final re-rounding is the largest candidate, magnitude * 2.5.
C3_FallbackIsLargestCandidate ==
  (Returned /\ ~found)
    => LET step == FMul(magnitude, F25)
       IN  /\ ret.step = step
           /\ ret.min = FMul(FFloor(FDiv(y_min, step)), step)
           /\ ret.max = FMul(FCeil(FDiv(y_max, step)), step)

\* C3 as amended: when no candidate passes the test, the step returned and
\* used for the final re-rounding is 5 * magnitude.
C3_FallbackIsFiveMagnitude ==
  (Returned /\ ~found)
    => LET step == FMul(F5, magnitude)
       IN  /\ ret.step = step
           /\ ret.min = FMul(FFloor(FDiv(y_min, step)), step)
           /\ ret.max = FMul(FCeil(FDiv(y_max, step)), step)

C3_Witness == Returned /\ ~found /\ NonZeroRange /\ FCmp(y_min, y_max) < 0

IsCall_003_097_10 ==
  l_pc = "done" /\ y_min = Y003 /\ y_max = Y097 /\ max_ticks = DefaultMaxTicks

\* C4 as stated: adjust_limits(0.03, 0.97, max_ticks=10) derives magnitude
\* 0.1 and returns step = 0.025, min = 0.0, max = 1.0.
C4_ExampleStep0025 ==
  IsCall_003_097_10
    => /\ l_outcome = "returned"
       /\ magnitude = F01
       /\ ret = [min |-> FZero, max |-> F1, step |-> F0025]

\* C4 as amended: adjust_limits(0.03, 0.97, max_ticks=10) derives magnitude
\* 0.1 and returns step = 0.1, min = 0.0, max = 1.0; 0.1 is the smallest
\* candidate for which (0.97 - 0.03) / candidate <= 10.
C4_ExampleStep01 ==
  IsCall_003_097_10
    => /\ l_outcome = "returned"
       /\ magnitude = F01
       /\ ret = [min |-> FZero, max |-> F1, step |-> F01]
       /\ \A j \in 1..Len(StepFactors) :
            FLe(FDiv(FSub(Y097, Y003), step_candidates(F01)[j]), FromInt(DefaultMaxTicks))
              <=> FLe(F01, step_candidates(F01)[j])

C4_Witness == IsCall_003_097_10 /\ l_outcome = "returned" /\ found

IsCallZeroZero == l_pc = "done" /\ y_min = FZero /\ y_max = FZero

\* C9 as stated: adjust_limits(0, 0) raises an error and returns no triple.
C9_ZeroRangeRaises == IsCallZeroZero => l_outcome = "raised"

\* C9 as amended: adjust_limits(0, 0) raises nothing; it returns the triple
\* (nan, nan, 0.0).
C9_ZeroRangeReturnsNaN ==
  IsCallZeroZero
    => l_outcome = "returned" /\ ret = [min |-> FNaN, max |-> FNaN, step |-> FZero]

C9_Witness == IsCallZeroZero /\ l_outcome = "returned" /\ ret.step = FZero

\* ------------------------------------------------------------------------
\* Properties of calculate_quarterly_dates (checked under SpecDates)
\* ------------------------------------------------------------------------
Emitted == {dates[a] : a \in DOMAIN dates}

IndexYears == {YearOf(t) : t \in index}

\* the last Friday on or before the last calendar day of month m of year y
LastFridayOfMonth(y, m) ==
  LET last == Timestamp(y, m, DaysInMonth(y, m))
  IN  CHOOSE f \in (last - 6)..last : weekday(f) = 4

ExpectedDates ==
  {d \in index :
     \E m \in {3, 6, 9, 12} : \E y \in SetMin(IndexYears)..SetMax(IndexYears) :
        d = LastFridayOfMonth(y, m) - shift_back_days}

June12 == Timestamp(2023, 6, 12)

\* C5: the result holds exactly the dates d of the index with
\* d = (last Friday of month m of year y) - shift_back_days for a quarter
\* month m and a year y of the index's year range; other computed dates
\* are dropped; index {2023-06-12} with shift 18 gives [2023-06-12].
C5_ExactlyTheAnchorsInIndex ==
  (d_pc = "done" /\ d_outcome = "returned")
    => /\ Emitted = ExpectedDates
       /\ Len(dates) = Cardinality(ExpectedDates)
       /\ (index = {June12} /\ shift_back_days = DefaultShiftBackDays) => dates = <<June12>>

C5_Witness ==
  /\ d_pc = "done" /\ d_outcome = "returned"
  /\ shift_back_days = DefaultShiftBackDays
  /\ dates = <<June12>>
  /\ Cardinality(index) >= 2

\* C6: with an empty index the call completes normally and returns an
\* empty sequence.
C6_EmptyIndexReturnsEmpty ==
  (d_pc = "done" /\ index = {}) => d_outcome = "returned" /\ dates = <<>>

\* C7 as stated: every emitted date falls on a Friday and is a member of
\* the index, for any shift_back_days.
C7_EmittedAreFridays ==
  (d_pc = "done" /\ d_outcome = "returned")
    => \A d \in Emitted : weekday(d) = 4 /\ d \in index

\* C7 as amended: every emitted date is a member of the index and lies
\* exactly shift_back_days days before a Friday; it is a Friday when
\* shift_back_days is a multiple of 7 and a Monday for the default 18.
C7_EmittedAreShiftedFridays ==
  (d_pc = "done" /\ d_outcome = "returned")
    => \A d \in Emitted :
         /\ d \in index
         /\ weekday(d + shift_back_days) = 4
         /\ shift_back_days % 7 = 0 => weekday(d) = 4
         /\ shift_back_days = DefaultShiftBackDays => weekday(d) = 0

C7_Witness ==
  /\ d_pc = "done" /\ d_outcome = "returned"
  /\ shift_back_days = DefaultShiftBackDays
  /\ Len(dates) >= 2

QuarterMajorOrder ==
  \A a, b \in DOMAIN dates :
     a < b => \/ MonthOf(dates[a]) < MonthOf(dates[b])
              \/ /\ MonthOf(dates[a]) = MonthOf(dates[b])
                 /\ YearOf(dates[a]) < YearOf(dates[b])

Chronological == \A a, b \in DOMAIN dates : a < b => dates[a] < dates[b]

\* C8 as stated: the result is ordered by quarter month first and year
\* second, and is not chronological whenever the index spans more than one
\* year and dates of different quarters are emitted.
C8_QuarterMajorThenNeverChronological ==
  (d_pc = "done" /\ d_outcome = "returned")
    => /\ QuarterMajorOrder
       /\ (/\ SetMax(IndexYears) > SetMin(IndexYears)
           /\ Cardinality({MonthOf(d) : d \in Emitted}) > 1)
            => ~Chronological

\* C8 as amended: the result is ordered by quarter month first and year
\* second; it is not chronological exactly when an emitted date of an
\* earlier quarter month lies in a later year than an emitted date of a
\* later quarter month.
C8_QuarterMajorOrder ==
  (d_pc = "done" /\ d_outcome = "returned")
    => /\ QuarterMajorOrder
       /\ ~Chronological
            <=> \E d1, d2 \in Emitted :
                   MonthOf(d1) < MonthOf(d2) /\ YearOf(d1) > YearOf(d2)

C8_Witness ==
  /\ d_pc = "done" /\ d_outcome = "returned"
  /\ Len(dates) >= 2
  /\ ~Chronological

\* ------------------------------------------------------------------------
\* Properties of IndexCounter (checked under SpecCounter)
\* ------------------------------------------------------------------------
CounterValue ==
  /\ ~was_reset => i = start + n_next
  /\ was_reset => i = n_next
  /\ c_op = "reset" => i = 0
  /\ c_op \in {"i_next", "i_curr"} => c_ret = <<i>>

\* C10: the index is start plus the number of i_next calls while reset was
\* never called, and the number of i_next calls since the last reset
\* otherwise (reset sets 0, not start); i_next returns the incremented
\* value; i_curr returns the index and leaves it unchanged.
C10_CounterTracksCalls ==
  /\ []CounterValue
  /\ [][/\ c_op' = "i_curr" => i' = i
        /\ c_op' = "i_next" => i' = i + 1 /\ c_ret' = <<i + 1>>]_vars

C10_Witness ==
  /\ start # 0 /\ was_reset /\ n_next >= 2 /\ c_op = "i_curr" /\ c_ret = <<n_next>>

====
